---- MODULE Spec2Model ----
(***************************************************************************)
(* Cartesian Genetic Programming: the Individual (genome, active nodes,    *)
(* evaluation, mutation operators) and the generate() search driver of     *)
(* evolution.py.                                                           *)
(*                                                                         *)
(* An Individual is the record [genes, active, fitness].  genes is the    *)
(* flat gene list (gene i of the code is genes[i + 1] here), active the    *)
(* sorted list of active node indices, fitness the fitness attribute.      *)
(* Function genes hold the name of the function, connection and output     *)
(* genes hold integers.  A random draw of the code is the set of the       *)
(* values the draw can return.                                             *)
(***************************************************************************)
EXTENDS Integers, Sequences, FiniteSets, TLC

(***************************************************************************)
(* Bounds of the model.                                                    *)
(***************************************************************************)
\* The caller scores individuals with a fitness in 0 .. MaxFitness.
MaxFitness == 1
\* The driver stops being resumed once output['skipped'] reaches MaxSkipped.
MaxSkipped == 2

(***************************************************************************)
(* Program constants.                                                      *)
(***************************************************************************)
\* -sys.maxint, the fitness of an individual nobody has scored (32 bit int).
UnsetFitness == -2147483647
\* None, the initial content of a scratch cell.
NoneVal == -1

\* mutation_rate is modelled in percent: random.random() < mutation_rate is
\* never true for 0, always true for 100, and may go either way in between.
Rates == {0, 50, 100}

Fitnesses == 0 .. MaxFitness

Speeds == {"normal", "skip", "accumulate", "single"}

\* The Individual part of a configuration (the keyword arguments of __init__).
Shape(gl, il, ol, ar, fl) ==
    [graph_length |-> gl, input_length |-> il, output_length |-> ol,
     max_arity |-> ar, function_list |-> fl]

\* Configurations of the Individual-level specification.
IndConfigs ==
    { Shape(1, 2, 1, 2, <<"or_", "nand">>),
      Shape(3, 1, 1, 1, <<"not_">>) }

\* The configuration with no input and nullary functions, for which
\* construction succeeds as well.
NullaryConfigs == { Shape(1, 0, 1, 0, <<"one">>) }

\* Configurations of the driver specification.
DriverShapes ==
    { Shape(1, 1, 1, 2, <<"and_", "nor">>),
      Shape(2, 1, 1, 1, <<"not_">>) }

DriverRates == {0, 50}

OffSizes == {1, 2}

\* config: the constructor arguments and the fields generate() reads.
Configs ==
    { [graph_length |-> sh.graph_length, input_length |-> sh.input_length,
       output_length |-> sh.output_length, max_arity |-> sh.max_arity,
       function_list |-> sh.function_list, mutation_rate |-> rate,
       off_size |-> size, speed |-> speed]
      : sh \in DriverShapes, rate \in DriverRates, size \in OffSizes,
        speed \in Speeds }

Min(a, b) == IF a < b THEN a ELSE b

Max(a, b) == IF a < b THEN b ELSE a

Range(s) == { s[i] : i \in 1 .. Len(s) }

(***************************************************************************)
(* problems.py: the function set.                                          *)
(***************************************************************************)
nand(x, y) == IF x = 1 /\ y = 1 THEN 0 ELSE 1

nor(x, y) == IF x = 1 \/ y = 1 THEN 0 ELSE 1

\* function(*args): the call of a function gene on the argument list, as
\* [error, value].  operator.or_ and operator.and_ raise TypeError on None;
\* nand and nor are written with the boolean operators, for which None is
\* false.  not_ and one are the unary and nullary stand-ins of the
\* configurations with max_arity below 2.
Call(function, args) ==
    CASE function = "or_" ->
           IF args[1] = NoneVal \/ args[2] = NoneVal
           THEN [error |-> "TypeError", value |-> NoneVal]
           ELSE [error |-> "", value |-> Max(args[1], args[2])]
      [] function = "and_" ->
           IF args[1] = NoneVal \/ args[2] = NoneVal
           THEN [error |-> "TypeError", value |-> NoneVal]
           ELSE [error |-> "", value |-> Min(args[1], args[2])]
      [] function = "nand" -> [error |-> "", value |-> nand(args[1], args[2])]
      [] function = "nor" -> [error |-> "", value |-> nor(args[1], args[2])]
      [] function = "not_" ->
           [error |-> "", value |-> IF args[1] = 1 THEN 0 ELSE 1]
      [] function = "one" -> [error |-> "", value |-> 1]

\* binary_range: itertools.product((0, 1), repeat=input_length), in order.
RECURSIVE binary_range(_)
binary_range(input_length) ==
    IF input_length = 0 THEN << <<>> >>
    ELSE LET shorter == binary_range(input_length - 1)
         IN  [i \in 1 .. 2 * Len(shorter) |->
                 Append(shorter[(i + 1) \div 2], (i + 1) % 2)]

RECURSIVE Sum(_)
Sum(s) == IF s = <<>> THEN 0 ELSE Head(s) + Sum(Tail(s))

\* even_parity(inputs)
even_parity(inputs) == << (Sum(inputs) + 1) % 2 >>

(***************************************************************************)
(* util.py                                                                 *)
(***************************************************************************)
\* diff_count: izip stops at the shorter of the two lists.
diff_count(data1, data2) ==
    Cardinality({ i \in 1 .. Min(Len(data1), Len(data2)) : data1[i] # data2[i] })

(***************************************************************************)
(* evolution.py: Individual                                                *)
(***************************************************************************)
node_step(cfg) == cfg.max_arity + 1

\* len(self.genes)
GeneCount(cfg) == cfg.graph_length * node_step(cfg) + cfg.output_length

\* random_gene(index, invalid): the set of values the call can return.
\* avoid is {} for invalid = None and {invalid} otherwise.  An empty set is
\* a call that does not return (random.choice / randrange raise on an empty
\* range, the while loop spins when every choice is invalid).
random_gene(cfg, index, avoid) ==
    LET raw_node == index \div node_step(cfg)
        is_output == raw_node >= cfg.graph_length
        node_number == IF is_output THEN cfg.graph_length ELSE raw_node
        gene_number == IF is_output THEN -1 ELSE index % node_step(cfg)
    IN  IF gene_number = 0
        THEN IF Len(cfg.function_list) = 1
             THEN { cfg.function_list[1] }
             ELSE { choice \in Range(cfg.function_list) : choice \notin avoid }
        ELSE IF node_number + cfg.input_length = 1
             THEN { -1 }
             ELSE { choice \in (-cfg.input_length) .. (node_number - 1) :
                      choice \notin avoid }

\* self.genes[-self.output_length:]
OutputGenes(cfg, genes) ==
    SubSeq(genes, Len(genes) - cfg.output_length + 1, Len(genes))

\* connections(node_index)
connections(cfg, genes, node_index) ==
    LET node_start == node_step(cfg) * node_index
    IN  SubSeq(genes, node_start + 2, node_start + node_step(cfg))

\* sorted(S) for a set of integers
RECURSIVE Sorted(_)
Sorted(S) ==
    IF S = {} THEN <<>>
    ELSE LET m == CHOOSE x \in S : \A y \in S : x <= y
         IN  <<m>> \o Sorted(S \ {m})

\* The same loop run over range(graph_length) without reversed().
RECURSIVE AscendingFrom(_, _, _, _, _)
AscendingFrom(cfg, genes, at, node_index, active) ==
    IF at > node_index THEN active
    ELSE AscendingFrom(cfg, genes, at + 1, node_index,
                       IF at \in active
                       THEN active \cup Range(connections(cfg, genes, at))
                       ELSE active)

ActivePassAscending(cfg, genes, node_index, active) ==
    AscendingFrom(cfg, genes, 0, node_index, active)

\* The loop of determine_active_nodes, from node_index down to 0.
RECURSIVE ActivePass(_, _, _, _)
ActivePass(cfg, genes, node_index, active) ==
    IF node_index < 0 THEN active
    ELSE ActivePass(cfg, genes, node_index - 1,
                    IF node_index \in active
                    THEN active \cup Range(connections(cfg, genes, node_index))
                    ELSE active)

\* determine_active_nodes: the value it leaves in self.active.
determine_active_nodes(cfg, genes) ==
    LET active == ActivePass(cfg, genes, cfg.graph_length - 1,
                             Range(OutputGenes(cfg, genes)))
    IN  Sorted({ acting \in active : acting >= 0 })

\* The gene lists __init__ can build: gene index drawn by random_gene(index).
RECURSIVE InitialGenes(_, _)
InitialGenes(cfg, n) ==
    IF n = 0 THEN { <<>> }
    ELSE { Append(g, v) : g \in InitialGenes(cfg, n - 1),
                          v \in random_gene(cfg, n - 1, {}) }

\* Individual(**config): the individuals the constructor can return.
NewIndividual(cfg) ==
    { [genes |-> g, active |-> determine_active_nodes(cfg, g),
       fitness |-> UnsetFitness] : g \in InitialGenes(cfg, GeneCount(cfg)) }

\* A copy that starts out unscored.
copy_unscored(ind) ==
    [genes |-> ind.genes, active |-> ind.active, fitness |-> UnsetFitness]

\* copy(): a shallow copy with its own gene list.
copy(ind) == [genes |-> ind.genes, active |-> ind.active, fitness |-> ind.fitness]

\* scratch[-len(inputs):] = inputs[::-1] on a Python list: the last
\* len(inputs) cells are replaced; a slice that starts at -0 or before the
\* list is the whole list, which the reversed inputs then replace.
Reverse(s) == [i \in 1 .. Len(s) |-> s[Len(s) + 1 - i]]

LoadInputs(scr, inputs) ==
    IF Len(inputs) = 0 \/ Len(inputs) >= Len(scr)
    THEN Reverse(inputs)
    ELSE SubSeq(scr, 1, Len(scr) - Len(inputs)) \o Reverse(inputs)

\* scr[at] on a Python list: a negative index counts from the end.
InRange(scr, at) == -Len(scr) <= at /\ at < Len(scr)

Item(scr, at) == IF at >= 0 THEN scr[at + 1] ELSE scr[Len(scr) + at + 1]

SetItem(scr, at, value) ==
    IF at >= 0 THEN [scr EXCEPT ![at + 1] = value]
    ELSE [scr EXCEPT ![Len(scr) + at + 1] = value]

\* The loop of evaluate over self.active[k ..]; st is [scratch, error].
RECURSIVE EvalNodes(_, _, _, _)
EvalNodes(cfg, ind, k, st) ==
    IF k > Len(ind.active) \/ st.error # "" THEN st
    ELSE LET node_index == ind.active[k]
             function == ind.genes[node_index * node_step(cfg) + 1]
             cons == connections(cfg, ind.genes, node_index)
             readable == \A i \in 1 .. Len(cons) : InRange(st.scratch, cons[i])
             args == [i \in 1 .. Len(cons) |-> Item(st.scratch, cons[i])]
         IN  IF ~readable \/ ~InRange(st.scratch, node_index)
             THEN [st EXCEPT !.error = "IndexError"]
             ELSE LET res == Call(function, args)
                  IN  IF res.error # ""
                      THEN [st EXCEPT !.error = res.error]
                      ELSE EvalNodes(cfg, ind, k + 1,
                             [st EXCEPT !.scratch =
                                SetItem(st.scratch, node_index, res.value)])

\* evaluate(inputs) with the scratch list as the call finds it: the scratch
\* it leaves, the outputs it returns, and the exception it raises if any.
evaluate(cfg, ind, inputs, scr) ==
    LET st == EvalNodes(cfg, ind, 1,
                        [scratch |-> LoadInputs(scr, inputs), error |-> ""])
        outs == OutputGenes(cfg, ind.genes)
        readable == \A i \in 1 .. Len(outs) : InRange(st.scratch, outs[i])
    IN  IF st.error # ""
        THEN [scratch |-> st.scratch, outputs |-> <<>>, error |-> st.error]
        ELSE IF ~readable
        THEN [scratch |-> st.scratch, outputs |-> <<>>, error |-> "IndexError"]
        ELSE [scratch |-> st.scratch,
              outputs |-> [i \in 1 .. Len(outs) |-> Item(st.scratch, outs[i])],
              error |-> ""]

\* The gene lists the loop of mutate can leave once it has handled the
\* first n gene indices.
RECURSIVE MutatedGenes(_, _, _, _)
MutatedGenes(cfg, genes, mutation_rate, n) ==
    IF n = 0 THEN { genes }
    ELSE UNION { (IF mutation_rate < 100 THEN { g } ELSE {}) \cup
                 (IF mutation_rate > 0
                  THEN { [g EXCEPT ![n] = v] : v \in random_gene(cfg, n - 1, { g[n] }) }
                  ELSE {})
                 : g \in MutatedGenes(cfg, genes, mutation_rate, n - 1) }

\* mutate(mutation_rate): the individuals the call can return.
mutate(cfg, ind, mutation_rate) ==
    { [copy(ind) EXCEPT !.genes = g, !.active = determine_active_nodes(cfg, g)]
      : g \in MutatedGenes(cfg, ind.genes, mutation_rate, Len(ind.genes)) }

\* A loop that ends on the first gene that changes.
BreaksOnAnyChange(cfg, ind, index) == TRUE

\* The test that ends the loop of one_active_mutation: the gene at index is
\* an output gene or a gene of a node in self.active.
BreaksLoop(cfg, ind, index) ==
    LET node_number == index \div node_step(cfg)
    IN  node_number >= cfg.graph_length \/ node_number \in Range(ind.active)

\* One pass of the while loop of one_active_mutation from gene list g that
\* assigns a new value: the gene lists it can leave, with the index drawn.
LoopPass(cfg, g) ==
    UNION { { [genes |-> [g EXCEPT ![index + 1] = newval], index |-> index]
              : newval \in { v \in random_gene(cfg, index, {}) : v # g[index + 1] } }
            : index \in 0 .. Len(g) - 1 }

\* The gene lists the while loop can hold at the top of a pass.
RECURSIVE LoopStates(_, _, _, _)
LoopStates(cfg, ind, seen, frontier) ==
    IF frontier = {} THEN seen
    ELSE LET next == { p.genes : p \in { q \in UNION { LoopPass(cfg, g) : g \in frontier } :
                                           ~BreaksLoop(cfg, ind, q.index) } }
         IN  LoopStates(cfg, ind, seen \cup frontier, next \ (seen \cup frontier))

\* one_active_mutation(_): the individuals the call can return (none when
\* no pass can ever break the loop).
one_active_mutation(cfg, ind) ==
    { [copy(ind) EXCEPT !.genes = p.genes,
                        !.active = determine_active_nodes(cfg, p.genes)]
      : p \in { q \in UNION { LoopPass(cfg, g) :
                                g \in LoopStates(cfg, ind, {}, { ind.genes }) } :
                 BreaksLoop(cfg, ind, q.index) } }

\* The count without the function genes.
RECURSIVE ConnectionDifference(_, _, _, _)
ConnectionDifference(cfg, ind, other, k) ==
    IF k > Len(ind.active) THEN 0
    ELSE diff_count(connections(cfg, ind.genes, ind.active[k]),
                    connections(cfg, other.genes, ind.active[k]))
         + ConnectionDifference(cfg, ind, other, k + 1)

\* asym_phenotypic_difference(other)
RECURSIVE ActiveDifference(_, _, _, _)
ActiveDifference(cfg, ind, other, k) ==
    IF k > Len(ind.active) THEN 0
    ELSE LET node_index == ind.active[k]
             index == node_index * node_step(cfg)
         IN  diff_count(connections(cfg, ind.genes, node_index),
                        connections(cfg, other.genes, node_index))
             + (IF ind.genes[index + 1] # other.genes[index + 1] THEN 1 ELSE 0)
             + ActiveDifference(cfg, ind, other, k + 1)

asym_phenotypic_difference(cfg, ind, other) ==
    diff_count(OutputGenes(cfg, ind.genes), OutputGenes(cfg, other.genes))
    + ActiveDifference(cfg, ind, other, 1)

\* __lt__ and __le__
Lt(a, b) == a.fitness < b.fitness

Le(a, b) == a.fitness <= b.fitness

\* The loop of Problem.get_fitness over self.training[k ..] for the
\* even_parity problem; st is [scratch, score, error], score counting the
\* outputs more than epsilon away from the expected ones (0 < epsilon < 1).
RECURSIVE ScoreTraining(_, _, _, _, _)
ScoreTraining(cfg, ind, training, k, st) ==
    IF k > Len(training) \/ st.error # "" THEN st
    ELSE LET res == evaluate(cfg, ind, training[k], st.scratch)
             expected == even_parity(training[k])
         IN  ScoreTraining(cfg, ind, training, k + 1,
                 [scratch |-> res.scratch,
                  score |-> st.score + diff_count(res.outputs, expected),
                  error |-> res.error])

\* Problem.get_fitness(individual): the scratch it leaves, the exception it
\* raises if any, and the fitness it returns, counted in correct training
\* samples, that is in units of 1 / len(self.training) (output_length = 1).
get_fitness(cfg, ind, scr) ==
    LET training == binary_range(cfg.input_length)
        st == ScoreTraining(cfg, ind, training, 1,
                            [scratch |-> scr, score |-> 0, error |-> ""])
    IN  [scratch |-> st.scratch, error |-> st.error,
         fitness |-> Len(training) - st.score]

(***************************************************************************)
(* State.                                                                  *)
(*                                                                         *)
(* Individual level: one individual, the individual the last mutation      *)
(* operator returned for it, and the scratch list the two share (copy()    *)
(* is shallow for everything but the genes).                               *)
(*                                                                         *)
(* Driver level: the locals of generate() and the class attribute          *)
(* Individual.mutate the driver assigns to.                                *)
(***************************************************************************)
VARIABLES
    shape,           \* the constructor arguments of indiv
    indiv,           \* the individual the operators are called on
    clone,           \* the individual the last operator returned
    scratch,         \* self.scratch, shared by indiv and clone
    op,              \* the operation that acted last
    config,          \* the config argument of the running generate()
    mutate_attr,     \* the function Individual.mutate is bound to
    pc,              \* where the driver stands
    parent,          \* parent
    mutants,         \* mutants
    index,           \* index of the for loop (0 based)
    mutant,          \* mutant
    prev,            \* prev
    prev_is_mutant,  \* prev and mutant (and mutants[index]) are one object
    skipped,         \* output['skipped']
    best_child,      \* best_child
    yields           \* offspring yielded since the generation began

ind_vars == <<shape, indiv, clone, scratch, op>>

driver_vars ==
    <<config, mutate_attr, pc, parent, mutants, index, mutant, prev,
      prev_is_mutant, skipped, best_child, yields>>

vars == <<ind_vars, driver_vars>>

\* The value of a local that has not been assigned yet.
NoIndividual == [genes |-> <<>>, active |-> <<>>, fitness |-> UnsetFitness]

NoConfig ==
    [graph_length |-> 0, input_length |-> 0, output_length |-> 0,
     max_arity |-> 0, function_list |-> <<>>, mutation_rate |-> 0,
     off_size |-> 0, speed |-> "normal"]

\* The driver before generate() is called.
DriverIdle ==
    /\ config = NoConfig
    /\ mutate_attr = "mutate"
    /\ pc = "idle"
    /\ parent = NoIndividual
    /\ mutants = <<>>
    /\ index = 0
    /\ mutant = NoIndividual
    /\ prev = NoIndividual
    /\ prev_is_mutant = TRUE
    /\ skipped = 0
    /\ best_child = NoIndividual
    /\ yields = 0

\* self.scratch = [None] * (graph_length + self.input_length)
NewScratch(cfg) == [i \in 1 .. cfg.graph_length + cfg.input_length |-> NoneVal]

(***************************************************************************)
(* Individual level: the operations of the class, called one at a time.    *)
(***************************************************************************)
IndStart(shapes) ==
    /\ shape \in shapes
    /\ indiv \in NewIndividual(shape)
    /\ clone = indiv
    /\ scratch = NewScratch(shape)
    /\ op = "__init__"
    /\ DriverIdle

InitInd == IndStart(IndConfigs)

InitAny == IndStart(IndConfigs \cup NullaryConfigs)

\* clone = indiv.mutate(mutation_rate)
CallMutate ==
    /\ clone' \in UNION { mutate(shape, indiv, mutation_rate) : mutation_rate \in Rates }
    /\ op' = "mutate"
    /\ UNCHANGED <<shape, indiv, scratch, driver_vars>>

\* clone = indiv.one_active_mutation(_)
CallOneActiveMutation ==
    /\ clone' \in one_active_mutation(shape, indiv)
    /\ op' = "one_active_mutation"
    /\ UNCHANGED <<shape, indiv, scratch, driver_vars>>

\* clone.fitness = problem.get_fitness(clone), the caller scoring the
\* individual it was given; nothing is assigned when get_fitness raises.
Score ==
    /\ LET res == get_fitness(shape, clone, scratch)
       IN  /\ scratch' = res.scratch
           /\ clone' = IF res.error = ""
                       THEN [clone EXCEPT !.fitness = res.fitness]
                       ELSE clone
    /\ op' = "get_fitness"
    /\ UNCHANGED <<shape, indiv, driver_vars>>

\* The caller goes on with the individual it was returned, as the driver
\* does in parent = best_child and prev = mutant.
Adopt ==
    /\ indiv' = clone
    /\ op' = "adopt"
    /\ UNCHANGED <<shape, clone, scratch, driver_vars>>

NextInd ==
    \/ CallMutate
    \/ CallOneActiveMutation
    \/ Score
    \/ Adopt

SpecInd == InitInd /\ [][NextInd]_vars

SpecAny == InitAny /\ [][NextInd]_vars

(***************************************************************************)
(* Driver level: generate(config, output), cut at its yield statements     *)
(* and at the tests of its loops.  pc is                                   *)
(*   "idle"        before generate() is called,                           *)
(*   "root"        suspended at yield parent,                             *)
(*   "generation"  at the top of the while True loop,                     *)
(*   "for"         at the top of the for loop over mutants,               *)
(*   "while"       at the test of while change == 0,                      *)
(*   "yield"       suspended at yield mutant,                             *)
(*   "resumed"     after yield mutant, the caller having called next().   *)
(* output['estimated'] is a float no statement of the driver reads; it is  *)
(* left out.                                                               *)
(***************************************************************************)
Init ==
    /\ shape = NoConfig
    /\ indiv = NoIndividual
    /\ clone = NoIndividual
    /\ scratch = <<>>
    /\ op = "generate"
    /\ DriverIdle

\* max(mutants) with the keep-the-last-of-equals scan.
RECURSIVE max_last(_)
max_last(items) ==
    IF Len(items) = 1 THEN items[1]
    ELSE LET best == max_last(SubSeq(items, 1, Len(items) - 1))
         IN  IF Lt(items[Len(items)], best) THEN best ELSE items[Len(items)]

\* max(mutants): the builtin keeps the first item and replaces it only by
\* an item that compares greater, which for Individuals is the reflected
\* __lt__; of equally fit items the first one is returned.
RECURSIVE max(_)
max(items) ==
    IF Len(items) = 1 THEN items[1]
    ELSE LET best == max(SubSeq(items, 1, Len(items) - 1))
         IN  IF Lt(best, items[Len(items)]) THEN items[Len(items)] ELSE best

\* A test that leaves accumulate out.
checks_only_skip(speed) == speed = "skip"

\* config['speed'] not in ['normal', 'single']
checks_difference(speed) == speed \notin { "normal", "single" }

\* A parent that every best child replaces.
always_replaced(old, best) == best

\* if parent <= best_child: parent = best_child
next_parent(old, best) == IF Le(old, best) THEN best ELSE old

\* ind.mutate(mutation_rate) through the class attribute: the individuals
\* the call can return.
offspring(cfg, attr, ind) ==
    IF attr = "one_active_mutation" THEN one_active_mutation(cfg, ind)
    ELSE mutate(cfg, ind, cfg.mutation_rate)

\* The lists [parent.mutate(rate) for _ in range(n)] can build.
RECURSIVE Litters(_, _)
Litters(children, n) ==
    IF n = 0 THEN { <<>> }
    ELSE { Append(l, c) : l \in Litters(children, n - 1), c \in children }

\* generate(config, output) and the first next(): up to yield parent.  The
\* call assigns every local afresh, so the state it leaves does not depend
\* on where an earlier driver was abandoned: the caller that starts another
\* driver abandons the running one at its first yield.
Start ==
    /\ pc \in { "idle", "root" }
    /\ config' \in Configs
    /\ skipped' = 0
    /\ mutate_attr' = IF config'.speed = "single" THEN "one_active_mutation"
                      ELSE mutate_attr
    /\ parent' \in NewIndividual(config')
    /\ pc' = "root"
    /\ mutants' = <<>>
    /\ index' = 0
    /\ mutant' = NoIndividual
    /\ prev' = NoIndividual
    /\ prev_is_mutant' = TRUE
    /\ best_child' = NoIndividual
    /\ yields' = 0
    /\ UNCHANGED ind_vars

\* The caller scores the root it was yielded and calls next().
ScoreParent ==
    /\ pc = "root"
    /\ \E f \in Fitnesses : parent' = [parent EXCEPT !.fitness = f]
    /\ pc' = "generation"
    /\ UNCHANGED <<config, mutate_attr, mutants, index, mutant, prev,
                   prev_is_mutant, skipped, best_child, yields, ind_vars>>

\* mutants = [parent.mutate(...) for _ in range(off_size)]
NewGeneration ==
    /\ pc = "generation"
    /\ mutants' \in Litters(offspring(config, mutate_attr, parent), config.off_size)
    /\ index' = 0
    /\ yields' = 0
    /\ pc' = "for"
    /\ UNCHANGED <<config, mutate_attr, parent, mutant, prev, prev_is_mutant,
                   skipped, best_child, ind_vars>>

\* The body of the for loop for mutants[index], up to continue, to the
\* while loop or to yield mutant.
ForBody ==
    /\ pc = "for"
    /\ index < config.off_size
    /\ mutant' = mutants[index + 1]
    /\ prev' = mutant'
    /\ prev_is_mutant' = TRUE
    /\ IF checks_difference(config.speed)
          /\ asym_phenotypic_difference(config, parent, mutant') = 0
       THEN /\ skipped < MaxSkipped
            /\ skipped' = skipped + 1
            /\ IF config.speed = "skip"
               THEN pc' = "for" /\ index' = index + 1
               ELSE pc' = "while" /\ index' = index
            /\ yields' = yields
       ELSE /\ pc' = "yield"
            /\ yields' = yields + 1
            /\ UNCHANGED <<skipped, index>>
    /\ UNCHANGED <<config, mutate_attr, parent, mutants, best_child, ind_vars>>

\* One pass of while change == 0.
WhileBody ==
    /\ pc = "while"
    /\ prev' = mutant
    /\ mutant' \in offspring(config, mutate_attr, mutant)
    /\ prev_is_mutant' = FALSE
    /\ IF asym_phenotypic_difference(config, parent, mutant') = 0
       THEN pc' = "while" /\ yields' = yields
       ELSE pc' = "yield" /\ yields' = yields + 1
    /\ UNCHANGED <<config, mutate_attr, parent, mutants, index, skipped,
                   best_child, ind_vars>>

\* The caller scores the mutant it was yielded and calls next().  The
\* fitness is an attribute of the object: mutants[index] and prev show it
\* when they are the object that was yielded.
ScoreMutant ==
    /\ pc = "yield"
    /\ \E f \in Fitnesses : mutant' = [mutant EXCEPT !.fitness = f]
    /\ prev' = IF prev_is_mutant THEN mutant' ELSE prev
    /\ mutants' = IF prev_is_mutant THEN [mutants EXCEPT ![index + 1] = mutant']
                  ELSE mutants
    /\ pc' = "resumed"
    /\ UNCHANGED <<config, mutate_attr, parent, index, prev_is_mutant, skipped,
                   best_child, yields, ind_vars>>

\* After yield mutant: mutants[index] = prev if mutant < parent else mutant
\* under accumulate, then the next item of the for loop.
AfterYield ==
    /\ pc = "resumed"
    /\ mutants' = IF config.speed = "accumulate"
                  THEN [mutants EXCEPT ![index + 1] =
                           IF Lt(mutant, parent) THEN prev ELSE mutant]
                  ELSE mutants
    /\ index' = index + 1
    /\ pc' = "for"
    /\ UNCHANGED <<config, mutate_attr, parent, mutant, prev, prev_is_mutant,
                   skipped, best_child, yields, ind_vars>>

\* The for loop is exhausted: best_child = max(mutants), and the parent
\* for the next generation.
Select ==
    /\ pc = "for"
    /\ index = config.off_size
    /\ best_child' = max(mutants)
    /\ parent' = next_parent(parent, best_child')
    /\ pc' = "generation"
    /\ UNCHANGED <<config, mutate_attr, mutants, index, mutant, prev,
                   prev_is_mutant, skipped, yields, ind_vars>>

Next ==
    \/ Start
    \/ ScoreParent
    \/ NewGeneration
    \/ ForBody
    \/ WhileBody
    \/ ScoreMutant
    \/ AfterYield
    \/ Select

Spec == Init /\ [][Next]_vars

(***************************************************************************)
(* Properties of the Individual.                                           *)
(***************************************************************************)
\* The gene indices at which two gene lists differ.
DiffPositions(g1, g2) == { i \in 0 .. Len(g1) - 1 : g1[i + 1] # g2[i + 1] }

\* The gene indices of the output genes and of the genes of the nodes in
\* ind.active.
ActiveGenePositions(cfg, ind) ==
    { i \in 0 .. Len(ind.genes) - 1 :
        \/ i \div node_step(cfg) >= cfg.graph_length
        \/ i \div node_step(cfg) \in Range(ind.active) }

\* C1 as stated: the individual one_active_mutation returns differs from
\* the source in exactly one gene, an output gene or a gene of a node
\* active in the source.
C1_ExactlyOneGeneDiffers ==
    op = "one_active_mutation" =>
        /\ Cardinality(DiffPositions(indiv.genes, clone.genes)) = 1
        /\ DiffPositions(indiv.genes, clone.genes)
              \subseteq ActiveGenePositions(shape, indiv)

\* C1 amended: among the output genes and the genes of the nodes active in
\* the source, the individual one_active_mutation returns differs from the
\* source in exactly one; the gene list keeps its length.
C1_OneActiveGeneDiffers ==
    op = "one_active_mutation" =>
        /\ Len(clone.genes) = Len(indiv.genes)
        /\ Cardinality(DiffPositions(indiv.genes, clone.genes)
                         \cap ActiveGenePositions(shape, indiv)) = 1

\* one_active_mutation has returned an individual that differs from the
\* source in genes of inactive nodes as well.
C1_Witness ==
    /\ op = "one_active_mutation"
    /\ Cardinality(DiffPositions(indiv.genes, clone.genes)) >= 2

\* C3: when asym_phenotypic_difference of two individuals of one
\* configuration is 0, evaluate returns the same outputs for both on every
\* input vector of length input_length.
C3_ZeroDifferenceSameOutputs ==
    \A pair \in { <<indiv, clone>>, <<clone, indiv>> } :
        asym_phenotypic_difference(shape, pair[1], pair[2]) = 0 =>
            \A inputs \in [1 .. shape.input_length -> {0, 1}] :
                LET r1 == evaluate(shape, pair[1], inputs, scratch)
                    r2 == evaluate(shape, pair[2], inputs, scratch)
                IN  r1.outputs = r2.outputs /\ r1.error = r2.error

\* mutate has changed genes of inactive nodes only, on a scratch list that
\* evaluate has written to.
C3_Witness ==
    /\ op = "mutate"
    /\ asym_phenotypic_difference(shape, indiv, clone) = 0
    /\ indiv.genes # clone.genes
    /\ scratch # NewScratch(shape)

\* The connection values found by following the connection genes back
\* from the values in found, until nothing new is found.
RECURSIVE Reachable(_, _, _)
Reachable(cfg, genes, found) ==
    LET more == found \cup
                UNION { Range(connections(cfg, genes, n)) :
                          n \in { m \in found : m >= 0 } }
    IN  IF more = found THEN found ELSE Reachable(cfg, genes, more)

\* The sorted node indices reachable backwards from the output genes.
BackwardTraversal(cfg, genes) ==
    Sorted({ n \in Reachable(cfg, genes, Range(OutputGenes(cfg, genes))) : n >= 0 })

\* C4: the active list of every individual the constructor, mutate or
\* one_active_mutation returned is the sorted list of the nodes reachable
\* backwards from its output genes.
C4_ActiveIsBackwardTraversal ==
    \A ind \in { indiv, clone } :
        ind.active = BackwardTraversal(shape, ind.genes)

\* mutate has returned an individual whose three nodes form a chain from
\* the output, none of them active in the source.
C4_Witness ==
    /\ op = "mutate"
    /\ clone.active = <<0, 1, 2>>
    /\ indiv.active = <<>>
    /\ clone.genes[4] = 0 /\ clone.genes[6] = 1 /\ clone.genes[7] = 2

\* The gene at index is a connection or output gene.
IsConnectionGene(cfg, at) ==
    at \div node_step(cfg) >= cfg.graph_length \/ at % node_step(cfg) # 0

\* C5 as stated: after construction and any sequence of mutations, every
\* connection gene of node n is in [-input_length, n), every output gene in
\* [-input_length, graph_length), and the gene list has kept its length.
C5_GenesInRange ==
    \A ind \in { indiv, clone } :
        /\ Len(ind.genes) = GeneCount(shape)
        /\ \A at \in 0 .. Len(ind.genes) - 1 :
              IsConnectionGene(shape, at) =>
                  /\ ind.genes[at + 1] >= -shape.input_length
                  /\ ind.genes[at + 1] < Min(at \div node_step(shape), shape.graph_length)

\* C8 as stated: the individual mutate or one_active_mutation returns is
\* unscored.
C8_CloneUnscored ==
    op \in { "mutate", "one_active_mutation" } => clone.fitness = UnsetFitness

\* C8 amended: the individual mutate or one_active_mutation returns has the
\* fitness of the source, and the call leaves the source as it was.
C8_CloneInheritsFitness ==
    [][op' \in { "mutate", "one_active_mutation" } =>
          /\ clone'.fitness = indiv.fitness
          /\ indiv' = indiv]_vars

\* mutate has returned an individual with other genes than its scored
\* source.
C8_Witness ==
    /\ op = "mutate"
    /\ indiv.fitness # UnsetFitness
    /\ clone.genes # indiv.genes
    /\ clone.fitness = indiv.fitness

(***************************************************************************)
(* Properties of the driver.                                               *)
(***************************************************************************)
\* The step is the selection at the end of a generation.
IsSelect == pc = "for" /\ pc' = "generation"

\* C2: across the selection at the end of a generation the fitness of the
\* parent does not drop, and the parent becomes best_child exactly when
\* parent <= best_child.
C2_ParentFitnessNeverDrops ==
    [][IsSelect =>
          /\ parent'.fitness >= parent.fitness
          /\ parent.fitness <= best_child'.fitness => parent' = best_child'
          /\ parent.fitness > best_child'.fitness => parent' = parent]_vars

\* A generation has ended whose best child is less fit than the parent,
\* which stays.
C2_Witness ==
    /\ pc = "generation"
    /\ best_child # NoIndividual
    /\ best_child.fitness < parent.fitness
    /\ \A i \in 1 .. Len(mutants) : mutants[i].fitness # UnsetFitness

\* The driver has been resumed and stands at a loop that only an offspring
\* with a difference from the parent lets it leave with a yield.
AwaitsDifference ==
    /\ checks_difference(config.speed)
    /\ pc \in { "generation", "while" }

\* C6 as stated, in the form a finite run refutes: wherever a resumed
\* driver awaits an offspring that differs from the parent, the mutation
\* operator can return one, so that the driver can produce again.
C6_DriverCanProduce ==
    AwaitsDifference =>
        \E m \in offspring(config, mutate_attr,
                            IF pc = "while" THEN mutant ELSE parent) :
            asym_phenotypic_difference(config, parent, m) # 0

\* best_child is the first of the mutants of maximal fitness.
IsFirstMaximal(best, items) ==
    \E i \in 1 .. Len(items) :
        /\ items[i] = best
        /\ \A j \in 1 .. Len(items) : items[j].fitness <= best.fitness
        /\ \A j \in 1 .. i - 1 : items[j].fitness < best.fitness

\* best_child is the last of the mutants of maximal fitness.
IsLastMaximal(best, items) ==
    \E i \in 1 .. Len(items) :
        /\ items[i] = best
        /\ \A j \in 1 .. Len(items) : items[j].fitness <= best.fitness
        /\ \A j \in i + 1 .. Len(items) : items[j].fitness < best.fitness

\* C7 as stated: at the end of a generation best_child is a mutant of
\* maximal fitness, the last one in the list of those that share it.
C7_LastMaximalWins ==
    pc = "generation" /\ best_child # NoIndividual =>
        IsLastMaximal(best_child, mutants)

\* C7 amended: at the end of a generation best_child is a mutant of
\* maximal fitness, the first one in the list of those that share it.
C7_FirstMaximalWins ==
    pc = "generation" /\ best_child # NoIndividual =>
        IsFirstMaximal(best_child, mutants)

\* A generation has ended with two equally fit mutants of different genes,
\* the first of which is best_child.
C7_Witness ==
    /\ pc = "generation"
    /\ Len(mutants) = 2
    /\ mutants[1].fitness = mutants[2].fitness
    /\ mutants[1].genes # mutants[2].genes
    /\ best_child = mutants[1]

\* The for loop stands at an offspring with no difference from the parent,
\* under speed skip.
AtNeutralOffspring ==
    /\ config.speed = "skip"
    /\ pc = "for"
    /\ index < config.off_size
    /\ asym_phenotypic_difference(config, parent, mutants[index + 1]) = 0

\* C9 as stated: under skip an offspring with no difference from the
\* parent is never selected as best_child.
C9_NeutralNeverBestChild ==
    [][IsSelect /\ config.speed = "skip" =>
          asym_phenotypic_difference(config, parent, best_child') # 0]_vars

\* C9 amended: under skip an offspring with no difference from the parent
\* is not yielded and not scored; it stays in mutants with the fitness it
\* copied from the parent, and best_child is chosen among all of mutants.
C9_NeutralKeptUnyielded ==
    [][/\ AtNeutralOffspring =>
            /\ pc' = "for"
            /\ index' = index + 1
            /\ yields' = yields
            /\ mutants' = mutants
            /\ mutants[index + 1].fitness = parent.fitness
       /\ IsSelect /\ config.speed = "skip" =>
            best_child' \in Range(mutants)]_vars

\* Under skip a generation has ended in which nothing was yielded, and its
\* best child, which no caller scored, is the parent.
C9_Witness ==
    /\ config.speed = "skip"
    /\ pc = "generation"
    /\ best_child # NoIndividual
    /\ yields = 0
    /\ skipped > 0
    /\ parent = best_child
    /\ Len(mutants) = 2
    /\ mutants[1].genes # mutants[2].genes

\* C10: under skip and accumulate every offspring has a difference from
\* the parent when it is yielded; a generation yields off_size offspring
\* under accumulate and at most off_size under skip; output['skipped'] grows
\* by one exactly in the for loop pass of an offspring with no difference,
\* and stays 0 under normal and single.
C10_YieldedOffspringDiffers ==
    [][/\ pc # "yield" /\ pc' = "yield" /\ config.speed \in { "skip", "accumulate" } =>
            asym_phenotypic_difference(config, parent, mutant') # 0
       /\ IsSelect /\ config.speed = "accumulate" => yields = config.off_size
       /\ IsSelect /\ config.speed = "skip" => yields <= config.off_size
       /\ pc = "for" /\ index < config.off_size =>
            skipped' = skipped +
                (IF /\ config.speed \in { "skip", "accumulate" }
                    /\ asym_phenotypic_difference(config, parent, mutants[index + 1]) = 0
                 THEN 1 ELSE 0)
       /\ ~(pc = "for" /\ index < config.off_size) =>
            skipped' = skipped \/ (pc' = "root" /\ skipped' = 0)
       /\ config'.speed \in { "normal", "single" } => skipped' = 0]_vars

\* Under accumulate an offspring is yielded that the while loop mutated
\* again, after a first mutant with no difference.
C10_Witness ==
    /\ config.speed = "accumulate"
    /\ pc = "yield"
    /\ ~prev_is_mutant
    /\ skipped > 0
    /\ asym_phenotypic_difference(config, parent, prev) = 0

\* The for loop is about to start on the offspring of a new generation.
AtNewLitter == pc = "for" /\ index = 0

\* C11 as stated: the offspring of a generation are results of the
\* operator the speed of the driver itself selects: of one_active_mutation
\* for speed single, and of the per gene mutate for normal, skip and
\* accumulate (gene lists equal to the parent's for mutation_rate 0),
\* whatever drivers were started before.
C11_OperatorFollowsOwnSpeed ==
    AtNewLitter =>
        \A i \in 1 .. Len(mutants) :
            mutants[i] \in
                (IF config.speed = "single"
                 THEN one_active_mutation(config, parent)
                 ELSE mutate(config, parent, config.mutation_rate))

====
